---- MODULE Spec2Model ----
(***************************************************************************)
(* Job orchestration of the Gemini coding factory: webhook intake with     *)
(* deduplication (webhook-server.ts), the BullMQ queue and its quota pause *)
(* (queue.ts), the two worker processors found in the repository           *)
(* (part_002 and part_003) and the quota events (events.ts).               *)
(*                                                                         *)
(* Time is in milliseconds.  The BullMQ library itself is not part of the  *)
(* repository; its queue is modelled by its documented behaviour for the   *)
(* options the repository passes (attempts, backoff, jobId, delay, pause). *)
(***************************************************************************)
EXTENDS Integers, Sequences, FiniteSets, TLC

\* ------------------------------------------------------------------ bounds
MaxJobs == 2        \* webhook jobs created by addGeminiJob in one run
MaxQuota == 2       \* executions of the worker's quota branch in one run
MaxRequests == 2    \* webhook requests received in one run
MaxTime == 5400000  \* the clock stops here
TimeStep == 1800000 \* largest single advance of the clock
Block == 600        \* lines the external process writes in one step
MaxRetained == 1200 \* captured lines of one attempt at which it stops writing
BurstJobs == 51     \* jobs waiting at once in the burst scenario
MaxLines == 2       \* calls of emitJobStdout/emitJobStderr in the server
MaxTicks == 2       \* firings of the stats interval of one observer
MaxStats == 3       \* queue:stats messages after which an observer stays away
HistoryLive == 5    \* jobs that finish once the finished sets are full

\* ------------------------------------------------------- program constants
Attempts == 3             \* queue.ts:23      attempts: 3
BackoffDelay == 60000     \* queue.ts:26      backoff.delay
CoolDown == 3600000       \* part_003:88      3600 * 1000
DedupWindow == 3600000    \* webhook-server.ts:33   60 * 60 * 1000
Concurrency == 2          \* part_003:119     concurrency: 2
ProcessTimeout == 1800000 \* part_004:243     30 * 60 * 1000
StdoutKeep == 1000        \* QUOTA-PROTECTION-FIXES.md:29   last 1000 stdout lines
StderrKeep == 100         \* QUOTA-PROTECTION-FIXES.md:29   100 stderr lines

\* A BullMQ job id: <<n, d>> is the id that addGeminiJob generated for the
\* n-th job, followed by d suffixes "-requeued".  The job data (and so
\* job.data.jobId, repoPath and promptFile) of <<n, d>> is that of <<n, 0>>.
JobIds == (1..MaxJobs) \X (0..MaxQuota)
DataOf(j) == j[1]
Requeued(j) == <<j[1], j[2] + 1>>

WorkerFiles == {"part_002", "part_003"}

Min(a, b) == IF a <= b THEN a ELSE b

RECURSIVE Pow2(_)
Pow2(n) == IF n = 0 THEN 1 ELSE 2 * Pow2(n - 1)

\* ------------------------------------------------------------------ intake
\* Strings are token sequences; <<>> stands for a field that the request
\* does not carry (undefined).
Repos == {<<"org/app">>, <<"org/lib">>}            \* payload.repository.full_name
CommentIds == {<<"555">>, <<"unknown">>, <<>>}     \* payload.comment.id
Actions == {<<"created">>, <<"edited">>, <<"deleted">>, <<>>}  \* payload.action
Events == {"issue_comment", "push"}                \* x-github-event

\* The actions that the filter `payload.action && payload.action !==
\* 'created'` lets through.
PassingActions == {a \in Actions : ~(a # <<>> /\ a # <<"created">>)}

\* A trigger: repository full name, comment id and action of a request that
\* passes the filters.
Triggers == Repos \X CommentIds \X PassingActions

\* payload.comment?.id?.toString() || 'unknown'
CommentIdString(id) == IF id = <<>> THEN <<"unknown">> ELSE id

\* `${x}` in a template string.
Interpolate(x) == IF x = <<>> THEN <<"undefined">> ELSE x

\* `${payload.repository.full_name}-${commentId}-${payload.action}`
DedupKey(t) ==
  t[1] \o <<"-">> \o CommentIdString(t[2]) \o <<"-">> \o Interpolate(t[3])

\* The x-hub-signature-256 header of a request: its length in bytes (0: no
\* header, or an empty one) and whether it is the digest that
\* verifySignature computes, 'sha256=' followed by 64 hex digits.
DigestLength == 71
Signatures == {[len |-> 0, isDigest |-> FALSE],
               [len |-> DigestLength, isDigest |-> TRUE],
               [len |-> DigestLength, isDigest |-> FALSE],
               [len |-> DigestLength - 1, isDigest |-> FALSE],
               [len |-> DigestLength + 1, isDigest |-> FALSE]}

\* crypto.timingSafeEqual(Buffer.from(digest), Buffer.from(signature)): it
\* throws a RangeError when the two buffers differ in length.
timingSafeEqual(sig) ==
  IF sig.len # DigestLength THEN "throws"
  ELSE IF sig.isDigest THEN "true" ELSE "false"

\* WebhookServer.verifySignature, called when a secret is configured.
verifySignature(sig) == IF sig.len = 0 THEN "false" ELSE timingSafeEqual(sig)

\* A POST to the webhook path: signature header, event header, and of the
\* body the action, the repository, the comment id and whether it has the
\* fields that isValidWebhookPayload asks for.
Requests == [sig : Signatures, event : Events, action : Actions,
             repo : Repos, id : CommentIds, valid : BOOLEAN]

VARIABLES
  impl,               \* the worker file that is deployed as services/worker.ts
  secret,             \* whether config.secret is set
  last,               \* the response sent most recently by the webhook route
  acceptedAt,         \* Triggers -> the passes of the dedup check by
                      \* requests for the trigger: the time (at) and the
                      \* clear that was next to fire then (window)
  now,                \* Date.now()
  jobs,               \* the queue's job hash: JobIds -> record
  waitq,              \* the queue's wait list (also holds jobs while paused)
  paused,             \* geminiQueue.isPaused()
  timers,             \* pending setTimeout callbacks of pauseQueueForQuota
  processedWebhooks,  \* WebhookServer.processedWebhooks
  nextClear,          \* next firing of the hourly setInterval
  inflight,           \* Triggers -> handlers awaiting queueWebhookJob
  unanswered,         \* <<job id, trigger>> of the jobs that geminiQueue.add
                      \* has stored and whose handler has not responded yet
  nextJob,            \* number of the next job id addGeminiJob generates
  requests,           \* webhook requests handled so far
  resp,               \* Triggers -> responses sent since the last clear
  enq,                \* Triggers -> jobs enqueued since the last clear
  quotaUsed,          \* quota-branch executions so far
  exhausted,          \* calls of emitQuotaExhausted: the job whose processor
                      \* made the call and the resetTime passed
  restored,           \* calls of emitQuotaRestored
  resumes,            \* resumes of the queue performed by a resume timer
  io,                 \* Processes -> whether `io` of events.ts is set there
  sockets,            \* Observers -> the observer's socket and what it got
  published,          \* job number -> lines published to the job's room
  jobData,            \* job number -> the required fields its data lacks
  orchestrator,       \* the static fields of GeminiOrchestrator (worker
                      \* process): quotaExhausted and quotaResetTime
  history,            \* the queue's completed and failed sets, oldest
                      \* first
  server,             \* the server process: how far its shutdown has
                      \* come, and whether a queue-event handler threw
  detector            \* a call of detectQuotaExhaustion: the line it is
                      \* given, whether it has returned, and what

vars == <<impl, secret, last, acceptedAt, now, jobs, waitq, paused, timers,
          processedWebhooks, nextClear, inflight, unanswered, nextJob,
          requests, resp, enq, quotaUsed, exhausted, restored, resumes,
          io, sockets, published, jobData, orchestrator, detector,
          history, server>>

intakeVars == <<secret, last, acceptedAt, processedWebhooks, inflight,
                unanswered, nextJob, requests, resp, enq>>
quotaVars == <<paused, timers, quotaUsed, exhausted, resumes>>

\* startedAt is the time at which the processor of the running attempt
\* started (and spawned the external process); 0 while no attempt runs.
\* output and errorOutput are the numbers of lines held by the variables of
\* these names in executeGemini for the running attempt.
NoRecord == [st |-> "none", attemptsMade |-> 0, readyAt |-> 0, startedAt |-> 0,
             output |-> 0, errorOutput |-> 0, log |-> <<>>]

\* ---------------------------------------------------------------- events
\* The server (webhook-server.ts, which calls initializeSocketIO) and the
\* worker (node dist/services/worker.js) are two processes; each has its own
\* instance of the module events.ts and so its own `io`.
Processes == {"server", "worker"}
Observers == {"o1", "o2"}

\* A socket: rooms holds the job numbers n of the rooms `job:n` it joined,
\* interval whether its statsInterval is set, ticks the firings of the
\* interval, stats the queue:stats messages the observer received and inbox
\* the other events it received.
NoSocket == [connected |-> FALSE, rooms |-> {}, interval |-> FALSE,
             ticks |-> 0, stats |-> 0, inbox |-> {}]

Event(kind, j, line) == [kind |-> kind, job |-> j, line |-> line]

\* io.emit(ev): to every connected socket.
IoEmit(socks, ev) ==
  [o \in Observers |-> IF socks[o].connected
                        THEN [socks[o] EXCEPT !.inbox = @ \cup {ev}]
                        ELSE socks[o]]

\* io.emit(ev) reaching the sockets of one room too.
IoToAll(socks, n, ev) == IoEmit(socks, ev)

\* io.to(`job:${n}`).emit(ev): to the connected sockets that joined room n.
IoTo(socks, n, ev) ==
  [o \in Observers |-> IF socks[o].connected /\ n \in socks[o].rooms
                        THEN [socks[o] EXCEPT !.inbox = @ \cup {ev}]
                        ELSE socks[o]]

\* io.emit('queue:stats', stats)
IoEmitStats(socks) ==
  [o \in Observers |-> IF socks[o].connected
                        THEN [socks[o] EXCEPT !.stats = @ + 1]
                        ELSE socks[o]]

\* The exported functions of events.ts, called in process p: each returns
\* at once when `io` is null in that process.
emitJobStdout(p, socks, n, line) ==
  IF ~io[p] THEN socks ELSE IoTo(socks, n, Event("job:stdout", <<n, 0>>, line))
emitJobStderr(p, socks, n, line) ==
  IF ~io[p] THEN socks ELSE IoTo(socks, n, Event("job:stderr", <<n, 0>>, line))
emitJobStarted(p, socks, j) ==
  IF ~io[p] THEN socks ELSE IoEmit(socks, Event("job:started", j, 0))
emitQuotaExhausted(p, socks) ==
  IF ~io[p] THEN socks ELSE IoEmit(socks, Event("quota:exhausted", <<0, 0>>, 0))

\* The listeners that wireQueueEvents registers in the server for the
\* events the queue reports: io.emit of the job event, and for completed
\* and failed also broadcastQueueStats, which emits when getQueueStats
\* resolves (statsRead).
\* The handlers wired by wireQueueEvents call io!.emit: a queue event that
\* queueEvents delivers while `io` is null makes the handler throw a
\* TypeError.
Delivered(s) ==
  IF s.queueEvents = "open" /\ ~io["server"]
  THEN [s EXCEPT !.threw = TRUE] ELSE s

QueueEvent(socks, kind, j, statsRead) ==
  IF server.queueEvents = "closed" \/ ~io["server"] THEN socks
  ELSE LET sent == IoEmit(socks, Event(kind, j, 0)) IN
       IF kind \in {"job:completed", "job:failed"} /\ statsRead
       THEN IoEmitStats(sent) ELSE sent

\* The results of a read of the queue statistics that make a difference:
\* getQueueStats resolves (TRUE) or rejects (FALSE); without a connected
\* observer the two are the same.
StatsReads == IF \E o \in Observers : sockets[o].connected
              THEN BOOLEAN ELSE {TRUE}

\* The static fields of GeminiOrchestrator before any match, and as a
\* match at time t sets them.
QuotaResetInterval == 86400000
NoProtection == [quotaExhausted |-> FALSE, quotaResetTime |-> 0]
QuotaProtection(t) ==
  [quotaExhausted |-> TRUE, quotaResetTime |-> t + QuotaResetInterval]

\* The server process while it serves: queueEvents is listening, no
\* shutdown has begun.
Serving == [phase |-> "running", queueEvents |-> "open",
            closeQueue |-> "idle", closeWorker |-> "idle",
            forceTimer |-> FALSE, exitCode |-> -1, threw |-> FALSE]

\* No job has finished yet.
NoHistory == [completed |-> <<>>, failed |-> <<>>]

\* No call of the detector is being observed.
NoCall == [line |-> "", called |-> FALSE, result |-> FALSE]

Init ==
  /\ impl \in WorkerFiles
  /\ secret \in BOOLEAN
  /\ last = "none"
  /\ acceptedAt = [t \in Triggers |-> <<>>]
  /\ now = 0
  /\ jobs = [j \in JobIds |-> NoRecord]
  /\ waitq = <<>>
  /\ paused = FALSE
  /\ timers = <<>>
  /\ processedWebhooks = {}
  /\ nextClear = DedupWindow
  /\ inflight = [t \in Triggers |-> 0]
  /\ unanswered = {}
  /\ nextJob = 1
  /\ requests = 0
  /\ resp = [t \in Triggers |-> <<>>]
  /\ enq = [t \in Triggers |-> 0]
  /\ quotaUsed = 0
  /\ exhausted = <<>>
  /\ restored = 0
  /\ resumes = 0
  /\ io = [p \in Processes |-> p = "server"]
  /\ sockets = [o \in Observers |-> NoSocket]
  /\ published = [n \in 1..MaxJobs |-> 0]
  /\ jobData = [n \in 1..MaxJobs |-> {}]
  /\ orchestrator = NoProtection
  /\ history = NoHistory
  /\ server = Serving
  /\ detector = NoCall

\* --------------------------------------------------------------- the queue
\* geminiQueue.add(name, data, {jobId, delay}): a job id that is already in
\* the job hash (in any state, the retained history included) is not added
\* again; a delay puts the job in the delayed set until now + delay.
QueueAddJobs(js, id, delay) ==
  IF js[id].st # "none" THEN js
  ELSE [js EXCEPT ![id] = [NoRecord EXCEPT
          !.st = IF delay > 0 THEN "delayed" ELSE "waiting",
          !.readyAt = now + delay]]

QueueAddWait(js, wq, id, delay) ==
  IF js[id].st # "none" \/ delay > 0 THEN wq ELSE Append(wq, id)

\* The retry policy of defaultJobOptions: a processor that throws is retried
\* while fewer than `attempts` attempts were made, after an exponential
\* backoff of 2^(attemptsMade - 1) * delay.
ShouldRetry(attemptsMade) == attemptsMade + 1 < Attempts
BackoffFor(attemptsMade) == Pow2(attemptsMade - 1) * BackoffDelay

\* The record of a job whose processor returned a value.
MoveToCompleted(r, outcome) ==
  [r EXCEPT !.st = "completed", !.startedAt = 0,
            !.output = 0, !.errorOutput = 0,
            !.log = Append(r.log, outcome)]

\* The record of a job whose processor threw.
MoveToFailed(r, outcome) ==
  IF ShouldRetry(r.attemptsMade)
  THEN [r EXCEPT !.st = "delayed",
                 !.startedAt = 0, !.output = 0, !.errorOutput = 0,
                 !.attemptsMade = r.attemptsMade + 1,
                 !.readyAt = now + BackoffFor(r.attemptsMade + 1),
                 !.log = Append(r.log, outcome)]
  ELSE [r EXCEPT !.st = "failed",
                 !.startedAt = 0, !.output = 0, !.errorOutput = 0,
                 !.attemptsMade = r.attemptsMade + 1,
                 !.log = Append(r.log, outcome)]

\* defaultJobOptions.removeOnComplete / removeOnFail: the number of
\* finished jobs of each kind the queue keeps.
removeOnComplete == 50
removeOnFail == 100

\* A finished set that is never trimmed.
KeepAll(set, count) == set

\* When a job finishes the queue appends it to the finished set of its
\* kind and removes the entries beyond the `count` most recent.
KeepLast(set, count) ==
  IF Len(set) > count THEN SubSeq(set, Len(set) - count + 1, Len(set))
  ELSE set

\* The finished sets once job id has moved to state st.
Finished(h, id, st) ==
  CASE st = "completed" ->
         [h EXCEPT !.completed = KeepLast(Append(@, id), removeOnComplete)]
    [] st = "failed" ->
         [h EXCEPT !.failed = KeepLast(Append(@, id), removeOnFail)]
    [] OTHER -> h

\* The job hash without the jobs trimmed from the finished sets h.
Retention(js, h) ==
  [i \in DOMAIN js |->
     IF /\ js[i].st \in {"completed", "failed"}
        /\ \A k \in 1..Len(h.completed) : h.completed[k] # i
        /\ \A k \in 1..Len(h.failed) : h.failed[k] # i
     THEN NoRecord ELSE js[i]]

\* A worker that goes on fetching jobs from a paused queue (as after a
\* pause of the local worker object only).
WorkerMayFetchWhilePaused == TRUE

\* geminiQueue.pause() pauses the queue for every worker: a worker fetches
\* the next job only while the queue is not paused.
WorkerMayFetch == ~paused

\* ------------------------------------------------------------------ intake
\* The checks of the webhook route in the order of the code, up to the
\* dedup check: what the handler does with request q.
RouteVerdict(q) ==
  LET verified == IF secret THEN verifySignature(q.sig) ELSE "true" IN
  IF verified = "throws" THEN "500"
  ELSE IF verified = "false" THEN "401"
  ELSE IF q.event # "issue_comment" THEN "Event ignored"
  ELSE IF q.action # <<>> /\ q.action # <<"created">>
       THEN "Comment action ignored"
  ELSE IF ~q.valid THEN "400"
  ELSE IF DedupKey(<<q.repo, q.id, q.action>>) \in processedWebhooks
       THEN "Duplicate webhook ignored"
  ELSE "accepted"

\* The key inserted ahead of the payload validation.
AddReachedUnvalidated == {"accepted", "400"}

\* The verdicts with which the handler reaches processedWebhooks.add(key):
\* every earlier check returns from the handler.
AddReached == {"accepted"}

\* The key inserted only once queueWebhookJob has returned.
InsertAfterAwait == FALSE

\* processedWebhooks.add(key) follows processedWebhooks.has(key) in the same
\* synchronous run of the handler: the first await of the route comes later.
InsertBeforeAwait == TRUE

\* POST /webhook, up to the await of queueWebhookJob: the signature check,
\* the filters, the validation, the dedup check and the insertion of the
\* key.  An exception is answered 500 by the catch block of the route.
WebhookReceive(q) ==
  LET t == <<q.repo, q.id, q.action>>
      verdict == RouteVerdict(q)
  IN
  /\ requests < MaxRequests
  /\ requests' = requests + 1
  /\ processedWebhooks' = IF verdict \in AddReached /\ InsertBeforeAwait
                          THEN processedWebhooks \cup {DedupKey(t)}
                          ELSE processedWebhooks
  /\ IF verdict = "accepted"
     THEN /\ inflight' = [inflight EXCEPT ![t] = @ + 1]
          /\ acceptedAt' = [acceptedAt EXCEPT
                               ![t] = Append(@, [at |-> now, window |-> nextClear])]
          /\ UNCHANGED <<resp, last>>
     ELSE /\ last' = verdict
          /\ resp' = IF verdict = "Duplicate webhook ignored"
                     THEN [resp EXCEPT ![t] = Append(@, "duplicate")]
                     ELSE resp
          /\ UNCHANGED <<inflight, acceptedAt>>
  /\ UNCHANGED <<impl, jobData, server, history, orchestrator, detector, io, published, sockets, secret, now, jobs, waitq, nextClear, unanswered,
                 nextJob, enq, restored>>
  /\ UNCHANGED quotaVars

\* How the call of queueWebhookJob ends:
\*   ok              the job is prepared and stored, the job id is returned
\*   throwsBeforeAdd a step of the preparation (clone, checkout, detection,
\*                   prompt file) or geminiQueue.add throws
\*   throwsAfterAdd  geminiQueue.add has stored the job and a later step
\*                   throws: the getWaiting() call that addGeminiJob awaits
\*                   for its log line, or emitJobStarted
IntakeOutcomes == {"ok", "throwsBeforeAdd", "throwsAfterAdd"}

\* The handlers for trigger t whose call of queueWebhookJob has not reached
\* the end of geminiQueue.add.
Preparing(t) == inflight[t] - Cardinality({p \in unanswered : p[2] = t})

\* queueWebhookJob up to the return of `await geminiQueue.add` in
\* addGeminiJob: the job is in the queue, the handler is still suspended
\* (addGeminiJob goes on to await getWaiting() for its log line).
AddGeminiJob(t) ==
  /\ Preparing(t) > 0
  /\ nextJob <= MaxJobs
  /\ jobs' = QueueAddJobs(jobs, <<nextJob, 0>>, 0)
  /\ waitq' = QueueAddWait(jobs, waitq, <<nextJob, 0>>, 0)
  /\ nextJob' = nextJob + 1
  /\ enq' = [enq EXCEPT ![t] = @ + 1]
  /\ unanswered' = unanswered \cup {<<(<<nextJob, 0>>), t>>}
  /\ sockets' = QueueEvent(sockets, "job:waiting", <<nextJob, 0>>, TRUE)
  /\ server' = Delivered(server)
  /\ UNCHANGED <<impl, jobData, history, orchestrator, detector, io, published, secret, last, acceptedAt, now, processedWebhooks,
                 nextClear, inflight, requests, resp, restored>>
  /\ UNCHANGED quotaVars

\* The end of the call of queueWebhookJob and the response of the route: 200
\* with the job id when the call returns, 500 from the catch block when it
\* throws.
QueueWebhookJob(t, outcome) ==
  /\ inflight[t] > 0
  /\ inflight' = [inflight EXCEPT ![t] = @ - 1]
  /\ IF outcome = "throwsBeforeAdd"
     THEN /\ Preparing(t) > 0
          /\ UNCHANGED <<unanswered, sockets>>
     ELSE \E p \in unanswered :
            /\ p[2] = t
            /\ unanswered' = unanswered \ {p}
            /\ sockets' = IF outcome = "ok"
                          THEN emitJobStarted("server", sockets, p[1])
                          ELSE sockets
  /\ IF outcome = "ok"
     THEN /\ resp' = [resp EXCEPT ![t] = Append(@, "queued")]
          /\ last' = "queued"
     ELSE /\ resp' = [resp EXCEPT ![t] = Append(@, "error")]
          /\ last' = "500"
  /\ processedWebhooks' = IF InsertBeforeAwait \/ outcome # "ok"
                          THEN processedWebhooks
                          ELSE processedWebhooks \cup {DedupKey(t)}
  /\ UNCHANGED <<impl, jobData, server, history, orchestrator, detector, io, published, secret, acceptedAt, now, jobs, waitq,
                 nextClear, nextJob, requests, enq, restored>>
  /\ UNCHANGED quotaVars

\* A clear that removes nothing.
ClearKeepsEntries == processedWebhooks

\* What Set.clear() leaves in the set.
ClearedSet == {}

\* The hourly setInterval of the constructor: the whole set is cleared.
\* (resp and enq record what happened since the last clear.)
ClearDedup ==
  /\ now >= nextClear
  /\ processedWebhooks' = ClearedSet
  /\ nextClear' = nextClear + DedupWindow
  /\ resp' = [t \in Triggers |-> <<>>]
  /\ enq' = [t \in Triggers |-> 0]
  /\ UNCHANGED <<impl, jobData, server, history, orchestrator, detector, io, published, sockets, secret, last, acceptedAt, now, jobs, waitq, inflight,
                 unanswered, nextJob, requests, restored>>
  /\ UNCHANGED quotaVars


\* -------------------------------------------------------------- the worker
\* What the orchestrator call of an attempt ends with:
\*   exit0      the external process exits with code 0
\*   exitFail   it exits non-zero (or cannot be started); the message of the
\*              error holds no "429"
\*   quotaLine  a stderr line matches detectQuotaExhaustion: the process is
\*              killed and the orchestrator rejects with its own
\*              QuotaExceededError('API quota exhausted')
\*   err429     an Error whose message contains "429"
\*   timeout    the 30-minute timer of executeGeminiCLI kills the process and
\*              rejects with Error('Gemini process timeout')
Outcomes == {"exit0", "exitFail", "quotaLine", "err429", "timeout"}

\* Standard-error lines the external process may write.
StderrLines == {"RESOURCE_EXHAUSTED", "status 429", "Quota exceeded",
                "npm warn"}

\* String.prototype.toLowerCase, one character at a time.
UpperCaseLetters == "ABCDEFGHIJKLMNOPQRSTUVWXYZ"
LowerCaseLetters == "abcdefghijklmnopqrstuvwxyz"
ToLowerChar(c) ==
  IF \E i \in 1..Len(UpperCaseLetters) : SubSeq(UpperCaseLetters, i, i) = c
  THEN LET i == CHOOSE k \in 1..Len(UpperCaseLetters) :
                   SubSeq(UpperCaseLetters, k, k) = c
       IN SubSeq(LowerCaseLetters, i, i)
  ELSE c

\* A comparison that keeps the case of the string.
KeepCase(s) == s

RECURSIVE toLowerCase(_)
toLowerCase(s) ==
  IF Len(s) = 0 THEN ""
  ELSE ToLowerChar(SubSeq(s, 1, 1)) \o toLowerCase(SubSeq(s, 2, Len(s)))

\* String.prototype.includes
includes(s, sub) ==
  \E i \in 0..(Len(s) - Len(sub)) : SubSeq(s, i + 1, i + Len(sub)) = sub

quotaIndicators == <<"quota", "429", "free_tier_requests",
                     "RESOURCE_EXHAUSTED", "exceeded your current quota">>

\* GeminiOrchestrator.detectQuotaExhaustion: the value it returns.
detectQuotaExhaustion(stderr) ==
  \E k \in 1..Len(quotaIndicators) :
    includes(toLowerCase(stderr), toLowerCase(quotaIndicators[k]))

\* The error object an attempt rejects with: its class and whether its
\* message includes "429".  The orchestrator's QuotaExceededError is a class
\* of the orchestrator module; the worker file declares a class of its own
\* with the same name.
ErrorOf(outcome) ==
  CASE outcome = "quotaLine" ->
         [cls |-> "orchestrator.QuotaExceededError", has429 |-> FALSE]
    [] outcome = "err429" -> [cls |-> "Error", has429 |-> TRUE]
    [] OTHER -> [cls |-> "Error", has429 |-> FALSE]

\* The test of the worker's catch block:
\* error instanceof QuotaExceededError || error.message.includes('429')
IsQuotaError(err) == err.cls = "worker.QuotaExceededError" \/ err.has429

\* pauseQueueForQuota(resumeAt): the time at which its setTimeout fires.
ResumeTimerAt(resumeAt) == now + (resumeAt - now)

\* The fields of job.data that the processor of part_003 requires.
RequiredFields == {"jobId", "projectConfig", "repoPath", "promptFile"}

\* The validation at the head of the processor, for job data that lacks
\* the fields `missing`: part_003 throws when jobId is missing and returns
\* a result with success: false when projectConfig (or its type), repoPath
\* or promptFile is missing; part_002 validates nothing.
Validate(missing) ==
  IF impl = "part_002" THEN "run"
  ELSE IF "jobId" \in missing THEN "throw"
  ELSE IF "projectConfig" \in missing THEN "return"
  ELSE IF "repoPath" \in missing \/ "promptFile" \in missing THEN "return"
  ELSE "run"

\* The processor of job j goes on to the orchestrator call.
Runs(j) == Validate(jobData[DataOf(j)]) = "run"

\* A call of detectQuotaExhaustion with the line held by `detector`: it
\* returns the value of the test and, on a match, sets the static fields.
DetectQuotaExhaustion ==
  /\ ~detector.called
  /\ detector' = [detector EXCEPT
                    !.called = TRUE,
                    !.result = detectQuotaExhaustion(detector.line)]
  /\ orchestrator' = IF detectQuotaExhaustion(detector.line)
                     THEN QuotaProtection(now) ELSE orchestrator
  /\ UNCHANGED <<impl, jobData, server, history, io, published, sockets, now, jobs, waitq, nextClear, restored>>
  /\ UNCHANGED intakeVars
  /\ UNCHANGED quotaVars

\* The jobs whose processor is running.
Active == {j \in DOMAIN jobs : jobs[j].st = "active"}

\* A worker that takes jobs without regard to the jobs it is running.
SlotAlwaysFree == TRUE

\* One Worker object with `concurrency: 2`: it fetches a further job only
\* while fewer than `concurrency` of its processors are running.
SlotFree == Cardinality(Active) < Concurrency

\* The worker can take a job now.
CanDequeue ==
  /\ WorkerMayFetch
  /\ SlotFree
  /\ waitq # <<>>

\* The worker takes the job at the head of the wait list when one of its
\* slots is free.
Dequeue ==
  /\ CanDequeue
  /\ waitq' = Tail(waitq)
  /\ jobs' = [jobs EXCEPT ![Head(waitq)].st = "active",
                          ![Head(waitq)].startedAt = now]
  /\ sockets' = emitJobStdout("worker",
                              QueueEvent(sockets, "job:active", Head(waitq), TRUE),
                              DataOf(Head(waitq)), 0)
  /\ server' = Delivered(server)
  /\ UNCHANGED <<impl, jobData, history, orchestrator, detector, io, published, now, nextClear, restored>>
  /\ UNCHANGED intakeVars
  /\ UNCHANGED quotaVars

\* The rest of the processor of job j, from the settlement of the
\* orchestrator call with `outcome` to the job's move out of the active
\* state.
Finish(j, outcome) ==
  LET r == jobs[j]
      quota == outcome # "exit0" /\ IsQuotaError(ErrorOf(outcome))
      resumeAt == now + CoolDown
      throws == \/ impl = "part_002" /\ outcome # "exit0"
                \/ outcome = "missingJobId"
      added == IF quota /\ impl = "part_002"
               THEN QueueAddJobs(jobs, Requeued(j), CoolDown)
               ELSE jobs
      moved == IF throws THEN MoveToFailed(r, outcome)
               ELSE MoveToCompleted(r, outcome)
      told == emitJobStdout("worker", sockets, DataOf(j), 0)
      warned == IF quota THEN emitQuotaExhausted("worker", told) ELSE told
  IN
  /\ r.st = "active"
  /\ quota => quotaUsed < MaxQuota
  /\ history' = Finished(history, j, moved.st)
  /\ jobs' = Retention([added EXCEPT ![j] = moved],
                       Finished(history, j, moved.st))
  /\ \E statsRead \in StatsReads :
       sockets' = IF moved.st \in {"completed", "failed"}
                  THEN QueueEvent(warned, "job:" \o moved.st, j, statsRead)
                  ELSE warned
  /\ IF quota
     THEN /\ paused' = TRUE
          /\ timers' = Append(timers, ResumeTimerAt(resumeAt))
          /\ exhausted' = Append(exhausted, [job |-> j, resetTime |-> resumeAt])
          /\ quotaUsed' = quotaUsed + 1
          /\ UNCHANGED resumes
     ELSE UNCHANGED quotaVars
  /\ orchestrator' = IF outcome = "quotaLine"
                     THEN QuotaProtection(now) ELSE orchestrator
  /\ server' = IF moved.st \in {"completed", "failed"}
               THEN Delivered(server) ELSE server
  /\ UNCHANGED <<impl, jobData, detector, io, published, now, waitq, nextClear, restored>>
  /\ UNCHANGED intakeVars

\* The orchestrator call of job j settles without a detector match: the
\* external process exits (part_003: executeGemini; part_002:
\* processWebhook), or a step of the try block throws.
ProcessEnds(j, outcome) ==
  /\ outcome \in {"exit0", "exitFail", "err429"}
  /\ Runs(j)
  /\ Finish(j, outcome)

\* The validation of the data of job j fails: the processor ends before
\* the try block, by a throw (missingJobId) or by returning a result with
\* success: false (missingField).
ValidationFails(j) ==
  /\ ~Runs(j)
  /\ Finish(j, IF Validate(jobData[DataOf(j)]) = "throw"
               THEN "missingJobId" ELSE "missingField")

\* The external process may go on writing: the lines captured for the
\* running attempt of job j leave room for one more block.
MayWrite(j) == jobs[j].output + jobs[j].errorOutput + Block <= MaxRetained

\* The external process of job j writes to standard error (executeGemini,
\* which only part_003 calls).  Every line is appended to errorOutput and
\* given to the detector: on a match the process is killed and the call
\* rejects at the first line; a line that does not match is written Block
\* times in a row.
StderrLine(j, line) ==
  /\ impl = "part_003"
  /\ jobs[j].st = "active"
  /\ Runs(j)
  /\ IF detectQuotaExhaustion(line)
     THEN Finish(j, "quotaLine")
     ELSE /\ MayWrite(j)
          /\ jobs' = [jobs EXCEPT ![j].errorOutput = @ + Block]
          /\ UNCHANGED <<impl, jobData, server, history, orchestrator, detector, io, published, sockets, now, waitq, nextClear, restored>>
          /\ UNCHANGED intakeVars
          /\ UNCHANGED quotaVars

\* The external process of job j writes Block lines to standard output:
\* the line handler appends each of them to output.
StdoutLines(j) ==
  /\ impl = "part_003"
  /\ jobs[j].st = "active"
  /\ Runs(j)
  /\ MayWrite(j)
  /\ jobs' = [jobs EXCEPT ![j].output = @ + Block]
  /\ UNCHANGED <<impl, jobData, server, history, orchestrator, detector, io, published, sockets, now, waitq, nextClear, restored>>
  /\ UNCHANGED intakeVars
  /\ UNCHANGED quotaVars

\* The orchestrator that runs the external process of an attempt and
\* whether it arms a timer that kills the process: part_002 calls
\* processWebhook, which spawns through executeGeminiCLI (part_004, timer of
\* 30 minutes); part_003 calls executeGemini (part_005), which arms none.
HasProcessTimer == impl = "part_002"

\* The callback of the timer of executeGeminiCLI for the running attempt of
\* job j: the process is killed and the call rejects.
ProcessTimeoutFire(j) ==
  /\ HasProcessTimer
  /\ jobs[j].st = "active"
  /\ now >= jobs[j].startedAt + ProcessTimeout
  /\ Finish(j, "timeout")

\* The queue moves a delayed job whose delay has elapsed to the wait list.
PromoteDelayed(j) ==
  /\ jobs[j].st = "delayed"
  /\ now >= jobs[j].readyAt
  /\ jobs' = [jobs EXCEPT ![j].st = "waiting", ![j].readyAt = 0]
  /\ waitq' = Append(waitq, j)
  /\ sockets' = QueueEvent(sockets, "job:waiting", j, TRUE)
  /\ server' = Delivered(server)
  /\ UNCHANGED <<impl, jobData, history, orchestrator, detector, io, published, now, nextClear, restored>>
  /\ UNCHANGED intakeVars
  /\ UNCHANGED quotaVars

RemoveAt(s, i) == SubSeq(s, 1, i - 1) \o SubSeq(s, i + 1, Len(s))

\* The setTimeout callback of pauseQueueForQuota: geminiQueue.resume() and
\* a log line.
ResumeTimerFire ==
  \E i \in 1..Len(timers) :
    /\ timers[i] <= now
    /\ \A k \in 1..(i - 1) : timers[k] > now
    /\ timers' = RemoveAt(timers, i)
    /\ paused' = FALSE
    /\ resumes' = resumes + 1
    /\ UNCHANGED <<impl, jobData, server, history, orchestrator, detector, io, published, sockets, now, jobs, waitq, nextClear, restored,
                   quotaUsed, exhausted>>
    /\ UNCHANGED intakeVars

\* The worker process is restarted while it is idle and holds a pending
\* resume timer.  The timer lives in the memory of the process that called
\* pauseQueueForQuota and is gone with it; the paused flag of the queue is
\* kept by Redis and survives.  Nothing in the start-up code of the worker
\* or of the queue module resumes the queue or arms a timer again.
WorkerRestart ==
  /\ timers # <<>>
  /\ Active = {}
  /\ timers' = <<>>
  /\ UNCHANGED <<impl, jobData, server, history, orchestrator, detector, io, published, sockets, now, jobs, waitq, nextClear, restored, paused,
                 quotaUsed, exhausted, resumes>>
  /\ UNCHANGED intakeVars

\* ------------------------------------------------------------- observers
\* A dashboard client connects: the 'connection' handler calls
\* sendQueueStats (which emits when getQueueStats resolves, statsRead),
\* registers the listeners and sets the stats interval.
Connect(o, statsRead) ==
  /\ io["server"]
  /\ ~sockets[o].connected
  /\ sockets[o].stats < MaxStats
  /\ sockets' = [sockets EXCEPT ![o].connected = TRUE,
                                ![o].rooms = {},
                                ![o].interval = TRUE,
                                ![o].stats = IF statsRead THEN @ + 1 ELSE @]
  /\ UNCHANGED <<impl, jobData, server, history, orchestrator, detector, io, published, now, jobs, waitq, nextClear, restored>>
  /\ UNCHANGED intakeVars
  /\ UNCHANGED quotaVars

\* The client sends 'tail' for job n: socket.join(`job:${n}`).
TailJob(o, n) ==
  /\ sockets[o].connected
  /\ n \notin sockets[o].rooms
  /\ sockets' = [sockets EXCEPT ![o].rooms = @ \cup {n}]
  /\ UNCHANGED <<impl, jobData, server, history, orchestrator, detector, io, published, now, jobs, waitq, nextClear, restored>>
  /\ UNCHANGED intakeVars
  /\ UNCHANGED quotaVars

\* The client disconnects: the socket leaves its rooms and the second
\* 'disconnect' listener clears the interval.
Disconnect(o) ==
  /\ sockets[o].connected
  /\ sockets' = [sockets EXCEPT ![o].connected = FALSE,
                                ![o].rooms = {},
                                ![o].interval = FALSE]
  /\ UNCHANGED <<impl, jobData, server, history, orchestrator, detector, io, published, now, jobs, waitq, nextClear, restored>>
  /\ UNCHANGED intakeVars
  /\ UNCHANGED quotaVars

\* The stats interval of a socket fires (every 5000 ms): the callback
\* awaits getQueueStats and emits queue:stats to the socket when it
\* resolves; a rejection is caught and logged.
StatsTick(o, statsRead) ==
  /\ sockets[o].interval
  /\ sockets[o].ticks < MaxTicks
  /\ sockets' = [sockets EXCEPT ![o].ticks = @ + 1,
                                ![o].stats = IF statsRead THEN @ + 1 ELSE @]
  /\ UNCHANGED <<impl, jobData, server, history, orchestrator, detector, io, published, now, jobs, waitq, nextClear, restored>>
  /\ UNCHANGED intakeVars
  /\ UNCHANGED quotaVars

\* The lines published so far for the jobs 1..n.
RECURSIVE PublishedUpTo(_)
PublishedUpTo(n) == IF n = 0 THEN 0 ELSE published[n] + PublishedUpTo(n - 1)

\* emitJobStdout / emitJobStderr called in the server process with the next
\* line of job n.
EmitJobStdout(n) ==
  /\ PublishedUpTo(MaxJobs) < MaxLines
  /\ published' = [published EXCEPT ![n] = @ + 1]
  /\ sockets' = emitJobStdout("server", sockets, n, published[n] + 1)
  /\ UNCHANGED <<impl, jobData, server, history, orchestrator, detector, io, now, jobs, waitq, nextClear, restored>>
  /\ UNCHANGED intakeVars
  /\ UNCHANGED quotaVars

EmitJobStderr(n) ==
  /\ PublishedUpTo(MaxJobs) < MaxLines
  /\ published' = [published EXCEPT ![n] = @ + 1]
  /\ sockets' = emitJobStderr("server", sockets, n, published[n] + 1)
  /\ UNCHANGED <<impl, jobData, server, history, orchestrator, detector, io, now, jobs, waitq, nextClear, restored>>
  /\ UNCHANGED intakeVars
  /\ UNCHANGED quotaVars

\* ------------------------------------------------------------------- time
Deadlines ==
  {nextClear} \cup {timers[i] : i \in 1..Len(timers)}
              \cup {jobs[j].readyAt : j \in {k \in JobIds : jobs[k].st = "delayed"}}
              \cup {jobs[j].startedAt + ProcessTimeout :
                      j \in {k \in JobIds : HasProcessTimer /\ jobs[k].st = "active"}}

NextDeadline == CHOOSE d \in Deadlines : \A e \in Deadlines : d <= e

\* The next instant of the clock's grid (the multiples of TimeStep).
NextTick == ((now \div TimeStep) + 1) * TimeStep

\* The clock advances, never past a timer or a delay that is due, and not
\* while a free worker slot has a job to fetch (the fetch is immediate).
Advance ==
  /\ now < MaxTime
  /\ now < NextDeadline
  /\ ~CanDequeue
  /\ now' = Min(Min(NextTick, NextDeadline), MaxTime)
  /\ UNCHANGED <<impl, jobData, server, history, orchestrator, detector, io, published, sockets, jobs, waitq, nextClear, restored>>
  /\ UNCHANGED intakeVars
  /\ UNCHANGED quotaVars

Next ==
  \/ \E q \in Requests : WebhookReceive(q)
  \/ \E t \in Triggers : AddGeminiJob(t)
  \/ \E t \in Triggers, o \in IntakeOutcomes : QueueWebhookJob(t, o)
  \/ ClearDedup
  \/ Dequeue
  \/ \E j \in JobIds, o \in Outcomes : ProcessEnds(j, o)
  \/ \E j \in JobIds, line \in StderrLines : StderrLine(j, line)
  \/ \E j \in JobIds : StdoutLines(j)
  \/ \E j \in JobIds : PromoteDelayed(j)
  \/ \E j \in JobIds : ProcessTimeoutFire(j)
  \/ ResumeTimerFire
  \/ WorkerRestart
  \/ \E j \in JobIds : ValidationFails(j)
  \/ \E o \in Observers, statsRead \in BOOLEAN : Connect(o, statsRead)
  \/ \E o \in Observers, n \in 1..MaxJobs : TailJob(o, n)
  \/ \E o \in Observers : Disconnect(o)
  \/ \E o \in Observers, statsRead \in BOOLEAN : StatsTick(o, statsRead)
  \/ \E n \in 1..MaxJobs : EmitJobStdout(n)
  \/ \E n \in 1..MaxJobs : EmitJobStderr(n)
  \/ Advance

Spec == Init /\ [][Next]_vars

\* The intake alone: no worker is connected, accepted jobs stay waiting.
NextIntake ==
  \/ \E q \in Requests : WebhookReceive(q)
  \/ \E t \in Triggers : AddGeminiJob(t)
  \/ \E t \in Triggers, o \in IntakeOutcomes : QueueWebhookJob(t, o)
  \/ ClearDedup
  \/ Advance

\* No worker takes part, so one worker file stands for both.
InitIntake == Init /\ impl = "part_003"

SpecIntake == InitIntake /\ [][NextIntake]_vars

\* The intake together with a connected worker whose external processes
\* exit with code 0; the clock stands still.
NextServe ==
  \/ \E q \in Requests : WebhookReceive(q)
  \/ \E t \in Triggers : AddGeminiJob(t)
  \/ \E t \in Triggers, o \in IntakeOutcomes : QueueWebhookJob(t, o)
  \/ Dequeue
  \/ \E j \in JobIds : ProcessEnds(j, "exit0")

SpecServe == Init /\ [][NextServe]_vars

\* The object that addGeminiJob spreads into the options of geminiQueue.add.
rateLimiter == [max |-> 50, duration |-> 60000]

\* The options the worker file passes to `new Worker` (the connection
\* aside).  BullMQ limits the rate at which a worker takes jobs by the
\* worker option `limiter` only; `max` and `duration` are not job options,
\* so the guard of Dequeue holds no rate.
WorkerOptions == [concurrency |-> Concurrency]

\* A burst: BurstJobs jobs are waiting at time 0 (submitted while no worker
\* was connected), then a worker connects; every external process exits
\* with code 0 at once and the clock stands still.
BurstIds == (1..BurstJobs) \X {0}

InitBurst ==
  /\ impl \in WorkerFiles
  /\ secret = TRUE
  /\ last = "queued"
  /\ acceptedAt = [t \in Triggers |-> <<>>]
  /\ now = 0
  /\ jobs = [j \in BurstIds |-> [NoRecord EXCEPT !.st = "waiting"]]
  /\ waitq = [n \in 1..BurstJobs |-> <<n, 0>>]
  /\ paused = FALSE
  /\ timers = <<>>
  /\ processedWebhooks = {}
  /\ nextClear = DedupWindow
  /\ inflight = [t \in Triggers |-> 0]
  /\ unanswered = {}
  /\ nextJob = BurstJobs + 1
  /\ requests = BurstJobs
  /\ resp = [t \in Triggers |-> <<>>]
  /\ enq = [t \in Triggers |-> 0]
  /\ quotaUsed = 0
  /\ exhausted = <<>>
  /\ restored = 0
  /\ resumes = 0
  /\ io = [p \in Processes |-> p = "server"]
  /\ sockets = [o \in Observers |-> NoSocket]
  /\ published = [n \in 1..MaxJobs |-> 0]
  /\ jobData = [n \in 1..BurstJobs |-> {}]
  /\ orchestrator = NoProtection
  /\ history = NoHistory
  /\ server = Serving
  /\ detector = NoCall

\* Every run takes the same time: the job that was started first is the
\* first to end.
StartedFirst(j) == j \in Active /\ \A k \in Active : j[1] <= k[1]
NextBurst ==
  \/ Dequeue
  \/ \E j \in DOMAIN jobs : StartedFirst(j) /\ ProcessEnds(j, "exit0")

SpecBurst == InitBurst /\ [][NextBurst]_vars

\* The queue and the worker alone, from the state in which the intake has
\* accepted MaxJobs distinct triggers at time 0 and no request follows.
FirstTriggers == CHOOSE q \in [1..MaxJobs -> Triggers] :
                   \A a, b \in 1..MaxJobs :
                     /\ q[a][3] = <<"created">>
                     /\ a # b => DedupKey(q[a]) # DedupKey(q[b])
Accepted == {FirstTriggers[n] : n \in 1..MaxJobs}

QueueStart ==
  /\ impl \in WorkerFiles
  /\ secret = TRUE
  /\ last = "queued"
  /\ acceptedAt = [t \in Triggers |-> IF t \in Accepted
                                       THEN <<[at |-> 0, window |-> DedupWindow]>>
                                       ELSE <<>>]
  /\ now = 0
  /\ jobs = [j \in JobIds |->
               IF j[2] = 0 THEN [NoRecord EXCEPT !.st = "waiting"] ELSE NoRecord]
  /\ waitq = [n \in 1..MaxJobs |-> <<n, 0>>]
  /\ paused = FALSE
  /\ timers = <<>>
  /\ processedWebhooks = {DedupKey(t) : t \in Accepted}
  /\ nextClear = DedupWindow
  /\ inflight = [t \in Triggers |-> 0]
  /\ unanswered = {}
  /\ nextJob = MaxJobs + 1
  /\ requests = MaxJobs
  /\ resp = [t \in Triggers |-> IF t \in Accepted THEN <<"queued">> ELSE <<>>]
  /\ enq = [t \in Triggers |-> IF t \in Accepted THEN 1 ELSE 0]
  /\ quotaUsed = 0
  /\ exhausted = <<>>
  /\ restored = 0
  /\ resumes = 0
  /\ io = [p \in Processes |-> p = "server"]
  /\ sockets = [o \in Observers |-> NoSocket]
  /\ published = [n \in 1..MaxJobs |-> 0]
  /\ jobData = [n \in 1..MaxJobs |-> {}]
  /\ orchestrator = NoProtection
  /\ history = NoHistory
  /\ server = Serving

InitQueue == QueueStart /\ detector = NoCall

NextQueue ==
  \/ Dequeue
  \/ \E j \in JobIds, o \in Outcomes : ProcessEnds(j, o)
  \/ \E j \in JobIds, line \in StderrLines : StderrLine(j, line)
  \/ \E j \in JobIds : StdoutLines(j)
  \/ \E j \in JobIds : PromoteDelayed(j)
  \/ \E j \in JobIds : ProcessTimeoutFire(j)
  \/ ResumeTimerFire
  \/ ClearDedup
  \/ Advance

SpecQueue == InitQueue /\ [][NextQueue]_vars

\* The observers and the rooms alone: clients connect, join rooms and
\* leave while lines are published in the server process.
NextRooms ==
  \/ \E o \in Observers : Connect(o, TRUE)
  \/ \E o \in Observers, n \in 1..MaxJobs : TailJob(o, n)
  \/ \E o \in Observers : Disconnect(o)
  \/ \E n \in 1..MaxJobs : EmitJobStdout(n)
  \/ \E n \in 1..MaxJobs : EmitJobStderr(n)

SpecRooms == InitQueue /\ [][NextRooms]_vars

\* The observers and their stats intervals alone.
NextStats ==
  \/ \E o \in Observers, statsRead \in BOOLEAN : Connect(o, statsRead)
  \/ \E o \in Observers : Disconnect(o)
  \/ \E o \in Observers, statsRead \in BOOLEAN : StatsTick(o, statsRead)

SpecStats == InitQueue /\ [][NextStats]_vars

\* The queue and the worker with observers that connect and join rooms;
\* the clock stands still.
NextEvents ==
  \/ \E o \in Observers : Connect(o, TRUE)
  \/ \E o \in Observers, n \in 1..MaxJobs : TailJob(o, n)
  \/ Dequeue
  \/ \E j \in JobIds, o \in {"exit0", "err429"} : ProcessEnds(j, o)
  \/ \E j \in JobIds : StdoutLines(j)

SpecEvents == InitQueue /\ [][NextEvents]_vars

\* The queue and the worker with jobs whose data may lack required fields
\* (jobs put into the queue by a producer other than addGeminiJob); the
\* clock stands still.
InitMalformed ==
  /\ impl \in WorkerFiles
  /\ secret = TRUE
  /\ last = "queued"
  /\ acceptedAt = [t \in Triggers |-> <<>>]
  /\ now = 0
  /\ jobs = [j \in JobIds |->
               IF j[2] = 0 THEN [NoRecord EXCEPT !.st = "waiting"] ELSE NoRecord]
  /\ waitq = [n \in 1..MaxJobs |-> <<n, 0>>]
  /\ paused = FALSE
  /\ timers = <<>>
  /\ processedWebhooks = {}
  /\ nextClear = DedupWindow
  /\ inflight = [t \in Triggers |-> 0]
  /\ unanswered = {}
  /\ nextJob = MaxJobs + 1
  /\ requests = 0
  /\ resp = [t \in Triggers |-> <<>>]
  /\ enq = [t \in Triggers |-> 0]
  /\ quotaUsed = 0
  /\ exhausted = <<>>
  /\ restored = 0
  /\ resumes = 0
  /\ io = [p \in Processes |-> p = "server"]
  /\ sockets = [o \in Observers |-> NoSocket]
  /\ published = [n \in 1..MaxJobs |-> 0]
  /\ jobData \in [1..MaxJobs -> SUBSET RequiredFields]
  /\ orchestrator = NoProtection
  /\ history = NoHistory
  /\ server = Serving
  /\ detector = NoCall

NextMalformed ==
  \/ Dequeue
  \/ \E j \in JobIds : ValidationFails(j)
  \/ \E j \in JobIds, o \in {"exit0", "exitFail"} : ProcessEnds(j, o)
  \/ \E j \in JobIds : StdoutLines(j)

SpecMalformed == InitMalformed /\ [][NextMalformed]_vars

\* The queue and the worker with restarts of the worker process, under the
\* scheduling the runtime gives: a free worker slot fetches, a due delay, a
\* due timer and the hourly interval fire, the clock moves on, and every
\* external process ends.  No timer or delay is set beyond the end of the
\* clock, so that each one set does come due.  An attempt ends with exit
\* code 0, on a quota error, on a quota line or on its timeout.
Horizon ==
  /\ \A i \in 1..Len(timers') : timers'[i] <= MaxTime
  /\ \A j \in JobIds : jobs'[j].st = "delayed" => jobs'[j].readyAt <= MaxTime

NextCrash ==
  \/ Dequeue
  \/ \E j \in JobIds, o \in {"exit0", "err429"} : ProcessEnds(j, o) /\ Horizon
  \/ \E j \in JobIds, line \in StderrLines : StderrLine(j, line) /\ Horizon
  \/ \E j \in JobIds : StdoutLines(j)
  \/ \E j \in JobIds : PromoteDelayed(j)
  \/ \E j \in JobIds : ProcessTimeoutFire(j) /\ Horizon
  \/ ResumeTimerFire
  \/ WorkerRestart
  \/ ClearDedup
  \/ Advance

FairCrash ==
  /\ WF_vars(Dequeue)
  /\ WF_vars(ResumeTimerFire)
  /\ WF_vars(ClearDedup)
  /\ WF_vars(Advance)
  /\ \A j \in JobIds : WF_vars(PromoteDelayed(j))
  /\ \A j \in JobIds : WF_vars(ProcessEnds(j, "exit0"))

SpecCrash == InitQueue /\ [][NextCrash]_vars /\ FairCrash

\* The detector on its own: one call on each line of DetectorLines, which
\* are the indicators in the case of the source, in other cases, and
\* strings that come close to them, alone and inside a longer line.
LinePrefixes == {"", "Error: "}
LineSuffixes == {"", " again"}
LineCores ==
  {"quota", "Quota", "QUOTA", "429", "free_tier_requests",
   "FREE_TIER_REQUESTS", "Free_Tier_Requests", "RESOURCE_EXHAUSTED",
   "resource_exhausted", "Resource_Exhausted",
   "exceeded your current quota", "Exceeded Your Current Quota",
   "", "quot", "QU0TA", "42 9", "4 29", "free tier requests",
   "free_tier_request", "RESOURCE EXHAUSTED", "resource_exhauste",
   "exceeded your current", "npm warn", "rate limit", "status 500",
   "Q u o t a"}
DetectorLines ==
  {p \o c \o s : p \in LinePrefixes, c \in LineCores, s \in LineSuffixes}
InitDetector ==
  /\ QueueStart
  /\ impl = "part_003"
  /\ detector \in {[NoCall EXCEPT !.line = l] : l \in DetectorLines}
NextDetector == DetectQuotaExhaustion
SpecDetector == InitDetector /\ [][NextDetector]_vars

\* A queue whose finished sets are full: removeOnComplete jobs completed,
\* removeOnFail jobs failed, and HistoryLive jobs waiting for their last
\* attempt (part_002, where a failed run of the external process throws).
HistoryIds == (1..(removeOnComplete + removeOnFail + HistoryLive)) \X {0}
InitHistory ==
  /\ impl = "part_002"
  /\ secret = TRUE
  /\ last = "queued"
  /\ acceptedAt = [t \in Triggers |-> <<>>]
  /\ now = 0
  /\ jobs = [j \in HistoryIds |->
               IF j[1] <= removeOnComplete
               THEN [NoRecord EXCEPT !.st = "completed", !.log = <<"exit0">>]
               ELSE IF j[1] <= removeOnComplete + removeOnFail
               THEN [NoRecord EXCEPT
                       !.st = "failed", !.attemptsMade = Attempts,
                       !.log = <<"exitFail", "exitFail", "exitFail">>]
               ELSE [NoRecord EXCEPT
                       !.st = "waiting", !.attemptsMade = Attempts - 1,
                       !.log = <<"exitFail", "exitFail">>]]
  /\ waitq = [n \in 1..HistoryLive |->
                <<removeOnComplete + removeOnFail + n, 0>>]
  /\ paused = FALSE
  /\ timers = <<>>
  /\ processedWebhooks = {}
  /\ nextClear = DedupWindow
  /\ inflight = [t \in Triggers |-> 0]
  /\ unanswered = {}
  /\ nextJob = removeOnComplete + removeOnFail + HistoryLive + 1
  /\ requests = removeOnComplete + removeOnFail + HistoryLive
  /\ resp = [t \in Triggers |-> <<>>]
  /\ enq = [t \in Triggers |-> 0]
  /\ quotaUsed = 0
  /\ exhausted = <<>>
  /\ restored = 0
  /\ resumes = 0
  /\ io = [p \in Processes |-> p = "server"]
  /\ sockets = [o \in Observers |-> NoSocket]
  /\ published = [n \in 1..MaxJobs |-> 0]
  /\ jobData = [n \in 1..(removeOnComplete + removeOnFail + HistoryLive) |-> {}]
  /\ orchestrator = NoProtection
  /\ server = Serving
  /\ history = [completed |-> [k \in 1..removeOnComplete |-> <<k, 0>>],
                failed |-> [k \in 1..removeOnFail |->
                              <<removeOnComplete + k, 0>>]]
  /\ detector = NoCall
NextHistory ==
  \/ Dequeue
  \/ \E j \in DOMAIN jobs : ProcessEnds(j, "exit0")
  \/ \E j \in DOMAIN jobs : ProcessEnds(j, "exitFail")
SpecHistory == InitHistory /\ [][NextHistory]_vars

\* ---------------------------------------------------------------- shutdown
\* A step of the shutdown that changes only the server's record.
ShutdownStep(s) ==
  /\ server' = s
  /\ UNCHANGED <<impl, jobData, history, orchestrator, detector, io, published, sockets, now, jobs, waitq, nextClear, restored>>
  /\ UNCHANGED intakeVars
  /\ UNCHANGED quotaVars

\* SIGTERM or SIGINT: gracefulShutdown up to its suspension at
\* `await Promise.all([closeQueue(), closeWorker(), closeSocketIO()])`.
\* The three calls are made one after the other in one synchronous run:
\* closeQueue is suspended at `await queueEvents.close()`, closeWorker
\* returns the promise of worker.close(), closeSocketIO closes the
\* Socket.io server, which disconnects every client, and sets io = null.
GracefulShutdown ==
  /\ server.phase = "running"
  /\ server' = [server EXCEPT !.phase = "closing",
                              !.closeQueue = "pending",
                              !.closeWorker = "pending"]
  /\ io' = [io EXCEPT !["server"] = FALSE]
  /\ sockets' = [o \in Observers |->
                  [sockets[o] EXCEPT !.connected = FALSE, !.rooms = {},
                                     !.interval = FALSE]]
  /\ UNCHANGED <<impl, jobData, history, orchestrator, detector, published, now, jobs, waitq, nextClear, restored>>
  /\ UNCHANGED intakeVars
  /\ UNCHANGED quotaVars

\* closeQueue: `await queueEvents.close()` returns; from here on no queue
\* event reaches the handlers.
QueueEventsClosed ==
  /\ server.phase = "closing"
  /\ server.closeQueue = "pending"
  /\ server.queueEvents = "open"
  /\ ShutdownStep([server EXCEPT !.queueEvents = "closed"])

\* closeQueue: geminiQueue.close() and redis.quit() return.
CloseQueueDone ==
  /\ server.phase = "closing"
  /\ server.closeQueue = "pending"
  /\ server.queueEvents = "closed"
  /\ ShutdownStep([server EXCEPT !.closeQueue = "done"])

\* A close call of closeQueue rejects: Promise.all rejects, and the catch
\* block of gracefulShutdown calls process.exit(1).
CloseQueueRejects ==
  /\ server.phase = "closing"
  /\ server.closeQueue = "pending"
  /\ ShutdownStep([server EXCEPT !.closeQueue = "rejected",
                                 !.phase = "exited", !.exitCode = 1])

\* closeWorker: worker.close() resolves, which it does once the jobs the
\* worker is running have finished.
CloseWorkerDone ==
  /\ server.phase = "closing"
  /\ server.closeWorker = "pending"
  /\ ShutdownStep([server EXCEPT !.closeWorker = "done"])

\* Promise.all resolves: gracefulShutdown calls server.close(callback),
\* leaves the try block and arms the 10-second timer.
ShutdownSettles ==
  /\ server.phase = "closing"
  /\ server.closeQueue = "done"
  /\ server.closeWorker = "done"
  /\ ShutdownStep([server EXCEPT !.phase = "draining", !.forceTimer = TRUE])

\* The HTTP server has closed its connections: the callback of
\* server.close calls process.exit(0).
ServerClosed ==
  /\ server.phase = "draining"
  /\ ShutdownStep([server EXCEPT !.phase = "exited", !.exitCode = 0,
                                 !.forceTimer = FALSE])

\* The 10-second timer fires: process.exit(1).
ForceExit ==
  /\ server.phase # "exited"
  /\ server.forceTimer
  /\ ShutdownStep([server EXCEPT !.phase = "exited", !.exitCode = 1,
                                 !.forceTimer = FALSE])

\* The server is shut down while the worker process goes on with the jobs
\* in the queue.
NextShutdown ==
  \/ GracefulShutdown
  \/ QueueEventsClosed
  \/ CloseQueueDone
  \/ CloseQueueRejects
  \/ CloseWorkerDone
  \/ ShutdownSettles
  \/ ServerClosed
  \/ ForceExit
  \/ Dequeue
  \/ \E j \in JobIds : ProcessEnds(j, "exit0")
SpecShutdown == InitQueue /\ [][NextShutdown]_vars

\* The event loop runs a continuation that is ready and fires a timer that
\* is armed; whether a close call ever returns is up to Redis, to the jobs
\* that are running and to the HTTP clients.
FairShutdown ==
  /\ WF_vars(ShutdownSettles)
  /\ WF_vars(ForceExit)
SpecShutdownFair == InitQueue /\ [][NextShutdown]_vars /\ FairShutdown

TypeOK ==
  /\ impl \in WorkerFiles
  /\ now \in 0..MaxTime
  /\ \A j \in JobIds :
       /\ jobs[j].st \in {"none", "waiting", "delayed", "active",
                          "completed", "failed"}
       /\ jobs[j].attemptsMade \in 0..Attempts
  /\ paused \in BOOLEAN
  /\ quotaUsed \in 0..MaxQuota

\* ================================================================== claims
Last(q) == q[Len(q)]
Terminal(j) == jobs[j].st \in {"completed", "failed"}
\* The attempt of job j that just ended met a quota signal: a stderr line
\* the detector matched, or an error the worker's catch block takes for one.
EndedOnQuota(j) ==
  /\ jobs[j].log # <<>>
  /\ Last(jobs[j].log) \in {"quotaLine", "err429"}

\* C1: at most one active execution per job: no two processors run at the
\* same time on the same job data, the copy that the quota branch adds
\* under the id '<id>-requeued' included.
C1_AtMostOneActiveExecution ==
  \A a, b \in Active : a # b => DataOf(a) # DataOf(b)

\* C2: dedup idempotence: when a trigger was submitted twice before the
\* dedup set is cleared and both requests are answered, exactly one job was
\* enqueued for it: one request was answered 'queued', the other
\* 'duplicate'.
C2_DedupIdempotence ==
  \A t \in Triggers :
    (nextClear = DedupWindow /\ inflight[t] = 0 /\ Len(resp[t]) = 2)
      => /\ enq[t] = 1
         /\ \E i \in 1..2 : resp[t][i] = "queued"
         /\ \E i \in 1..2 : resp[t][i] = "duplicate"

\* C3: pause halts dequeue: in no step taken while the queue is paused does
\* a waiting job become active, so the jobs active during a pause were
\* active before it.
C3_PauseHaltsDequeue ==
  [][paused =>
       /\ \A j \in JobIds : jobs[j].st = "waiting" => jobs'[j].st # "active"
       /\ {j \in JobIds : jobs'[j].st = "active"} \subseteq Active]_vars

\* C3 witness: the queue is paused while a job waits and a worker slot is
\* free.
C3_Witness ==
  /\ paused
  /\ waitq # <<>>
  /\ Cardinality(Active) < Concurrency

\* C4: single outstanding resume timer: at most one resume timer is pending
\* and the queue is not resumed before the resume time of the latest quota
\* signal.
C4_SingleResumeTimer ==
  /\ Len(timers) <= 1
  /\ \A i \in 1..Len(exhausted) : now < exhausted[i].resetTime => paused

\* C5: retry ceiling: a job that has reached a terminal status and whose
\* every attempt failed with a non-quota error was attempted exactly 3
\* times and is failed.
C5_RetryCeiling ==
  \A j \in JobIds :
    (/\ Terminal(j)
     /\ jobs[j].log # <<>>
     /\ \A i \in 1..Len(jobs[j].log) : jobs[j].log[i] = "exitFail")
      => /\ jobs[j].st = "failed"
         /\ Len(jobs[j].log) = Attempts

\* C6: quota scenario: for every job with an attempt that ended on a stderr
\* line matched by the quota detector, a quota:exhausted event was
\* published by that job's processor and the job is not failed.
C6_QuotaScenario ==
  \A j \in JobIds :
    (\E i \in 1..Len(jobs[j].log) : jobs[j].log[i] = "quotaLine")
      => /\ \E k \in 1..Len(exhausted) : exhausted[k].job = j
         /\ jobs[j].st # "failed"

\* C7: a quota failure is not counted against the retry ceiling: the
\* attempt count of a job never exceeds the number of its attempts that
\* failed with a non-quota error (a non-zero exit or a timeout).
C7_QuotaNotCounted ==
  \A j \in JobIds :
    jobs[j].attemptsMade <=
      Cardinality({i \in 1..Len(jobs[j].log) :
                     jobs[j].log[i] \in {"exitFail", "timeout"}})

\* C8: a quota-deferred job is rescheduled: a job whose last attempt ended
\* on a quota signal is not left in a terminal status with no copy of it
\* scheduled.
C8_QuotaRescheduled ==
  \A j \in JobIds :
    (EndedOnQuota(j) /\ Terminal(j)) => jobs[Requeued(j)].st # "none"

\* C9: a quota-deferred job is not eligible early: before the resume time
\* that a job's quota event carries, that job is neither waiting nor active.
C9_NotEligibleEarly ==
  \A i \in 1..Len(exhausted) :
    now < exhausted[i].resetTime
      => jobs[exhausted[i].job].st \notin {"waiting", "active"}

\* C10: every resume of the queue by a resume timer is accompanied by
\* exactly one quota:restored event.
C10_RestoredOnResume == restored = resumes

\* C11: at-least-once eventual execution: every job that waits in the queue
\* is eventually started by a worker, also when the queue is paused by a
\* quota event and the worker process that armed the resume timer restarts
\* before the timer fires.
C11_EventuallyStarted ==
  \A j \in JobIds : (jobs[j].st = "waiting") ~> (jobs[j].st = "active")

\* C12: the exit code decides the terminal status: a job is reported
\* completed only when the external process of its last attempt exited with
\* code 0, and a job that has reached a terminal status on a non-zero exit
\* is reported failed.
C12_ExitCodeDecidesStatus ==
  \A j \in JobIds :
    /\ jobs[j].st = "completed" => Last(jobs[j].log) = "exit0"
    /\ (Terminal(j) /\ Last(jobs[j].log) = "exitFail") => jobs[j].st = "failed"

\* C13: hard timeout: no attempt is still running more than 30 minutes
\* after it was started.
C13_HardTimeout ==
  \A j \in JobIds :
    jobs[j].st = "active" => now <= jobs[j].startedAt + ProcessTimeout

\* C14: bounded output: the lines held in memory for the result of a
\* running attempt never exceed the last 1000 lines of standard output and
\* the last 100 lines of standard error.
C14_BoundedOutput ==
  \A j \in JobIds :
    /\ jobs[j].output <= StdoutKeep
    /\ jobs[j].errorOutput <= StderrKeep

\* C15: signature check: with a secret configured, every request whose
\* signature header is absent or is not the expected digest, whatever its
\* length, is answered 401, and neither the dedup set nor the queue
\* changes.
C15_SignatureCheck ==
  [][\A q \in Requests :
       (secret /\ ~q.sig.isDigest /\ WebhookReceive(q))
         => /\ last' = "401"
            /\ processedWebhooks' = processedWebhooks
            /\ jobs' = jobs
            /\ waitq' = waitq]_vars

\* C16: event and action filter: a request that passes the signature check,
\* has a well-formed payload and whose event is not the comment event, or
\* whose action is not exactly 'created' (edited, deleted, or no action at
\* all), is answered 200 as ignored, and nothing is accepted or enqueued
\* for it.
C16_EventActionFilter ==
  [][\A q \in Requests :
       (/\ secret => q.sig.isDigest
        /\ q.valid
        /\ q.event # "issue_comment" \/ q.action # <<"created">>
        /\ WebhookReceive(q))
         => /\ last' \in {"Event ignored", "Comment action ignored"}
            /\ processedWebhooks' = processedWebhooks
            /\ inflight' = inflight]_vars

\* The trigger t passed the dedup check since the last clear of the set:
\* its handler awaits queueWebhookJob or has answered.
AcceptedSinceClear(t) ==
  \/ inflight[t] > 0
  \/ \E i \in 1..Len(resp[t]) : resp[t][i] \in {"queued", "error"}

\* C17: dedup matches only the same triple: a trigger is answered
\* 'duplicate ignored' only if a trigger with the same repository full
\* name, the same comment id (a missing one included) and the same action
\* was accepted since the last clear of the dedup set.
C17_DedupSameTriple ==
  \A t \in Triggers :
    (t[3] = <<"created">> /\ \E i \in 1..Len(resp[t]) : resp[t][i] = "duplicate")
      => AcceptedSinceClear(t)

\* C18: a replay within one hour is ignored: no trigger passes the dedup
\* check less than one hour after an earlier delivery of it did, at
\* whatever time that earlier delivery arrived.
C18_ReplayIgnored ==
  \A t \in Triggers :
    t[3] = <<"created">> =>
      \A i \in 1..(Len(acceptedAt[t]) - 1) :
        acceptedAt[t][i + 1].at >= acceptedAt[t][i].at + DedupWindow

\* A signed, well-formed comment request for trigger t.
GoodRequest(t) ==
  [sig |-> [len |-> DigestLength, isDigest |-> TRUE], event |-> "issue_comment",
   action |-> t[3], repo |-> t[1], id |-> t[2], valid |-> TRUE]

C20_FailureEnqueuesNothing ==
  [][\A t \in Triggers :
       (inflight'[t] < inflight[t] /\ last' = "500")
         => unanswered' = unanswered]_vars

\* C21: concurrent insert-if-absent: of the requests for one trigger that
\* are handled between two clears of the set, however their handlers
\* interleave, at most one passes the dedup check, and at most one job is
\* stored for the trigger.
C21_InsertIfAbsent ==
  \A t \in Triggers :
    /\ \A i, k \in 1..Len(acceptedAt[t]) :
         i # k => acceptedAt[t][i].window # acceptedAt[t][k].window
    /\ Cardinality({p \in unanswered : p[2] = t}) <= Len(acceptedAt[t])
    /\ inflight[t] <= Len(acceptedAt[t])

\* A second request for a trigger was answered as a duplicate while the
\* handler of the first was still suspended in queueWebhookJob.
C21_Witness ==
  \E t \in Triggers :
    /\ inflight[t] = 1
    /\ Len(acceptedAt[t]) = 1
    /\ resp[t] = <<"duplicate">>
    /\ requests = 2

\* C22: response before execution: a job that geminiQueue.add has stored
\* and whose handler has not yet sent its response is still waiting; no
\* worker has started it.
C22_ResponseBeforeExecution ==
  \A p \in unanswered : jobs[p[1]].st = "waiting"

\* C23: only a quota signal pauses the queue: with the worker that calls
\* executeGemini, a step that pauses the queue or arms a resume timer is the
\* end of an attempt on a standard-error line that the quota detector
\* matched.
C23_OnlyQuotaSignalPauses ==
  [][(impl = "part_003" /\ ((paused' /\ ~paused) \/ Len(timers') > Len(timers)))
       => \E j \in JobIds :
            /\ Len(jobs'[j].log) > Len(jobs[j].log)
            /\ Last(jobs'[j].log) = "quotaLine"]_vars

\* C24: admission rate limit: within the first rateLimiter.duration
\* milliseconds after a worker connects, at most rateLimiter.max jobs have
\* been admitted from the queue into execution.
C24_AdmissionRateLimit ==
  now < rateLimiter.duration
    => Cardinality({j \in DOMAIN jobs :
                      jobs[j].st \in {"active", "completed", "failed"}})
         <= rateLimiter.max

\* C25: fixed pool size: at most 2 jobs are active at the same time, and a
\* job becomes active only from the waiting state, at the head of the wait
\* list, while the queue is not paused and fewer than 2 jobs are active.
C25_FixedPoolSize ==
  /\ [](Cardinality(Active) <= 2)
  /\ [][\A j \in JobIds :
          (jobs'[j].st = "active" /\ jobs[j].st # "active")
            => /\ jobs[j].st = "waiting"
               /\ waitq # <<>> /\ Head(waitq) = j
               /\ ~paused
               /\ Cardinality(Active) < 2]_vars

\* Both slots are busy while a further job waits in a queue that is not
\* paused.
C25_Witness ==
  /\ Cardinality(Active) = 2
  /\ waitq # <<>>
  /\ ~paused

\* C26: room-scoped output without replay: a job:stdout or job:stderr event
\* that an observer receives in a step is the line of job n published in
\* that very step, and the observer was connected and in the room of n
\* before the step.
C26_RoomScopedOutput ==
  [][\A o \in Observers :
       \A e \in sockets'[o].inbox \ sockets[o].inbox :
         e.kind \in {"job:stdout", "job:stderr"}
           => /\ sockets[o].connected
              /\ e.job[1] \in sockets[o].rooms
              /\ e.line = published[e.job[1]] + 1
              /\ published'[e.job[1]] = e.line]_vars

\* Two lines of job 1 were published; o1 joined the room after the first
\* and got only the second, o2 is connected without having joined and got
\* neither.
C26_Witness ==
  /\ published[1] = 2
  /\ sockets["o1"].connected /\ 1 \in sockets["o1"].rooms
  /\ {e.line : e \in {x \in sockets["o1"].inbox : x.job = <<1, 0>> /\ x.line > 0}} = {2}
  /\ sockets["o2"].connected /\ sockets["o2"].rooms = {}
  /\ {x \in sockets["o2"].inbox : x.line > 0} = {}

\* C27: global lifecycle broadcast: in a step in which a job becomes
\* waiting, active, completed or failed, and in a step in which the worker
\* reports quota exhaustion, every observer connected before the step has
\* received the event after it.
C27_GlobalBroadcast ==
  [][/\ \A j \in JobIds :
          (jobs'[j].st # jobs[j].st
             /\ jobs'[j].st \in {"waiting", "active", "completed", "failed"})
            => \A o \in Observers :
                 sockets[o].connected
                   => Event("job:" \o jobs'[j].st, j, 0) \in sockets'[o].inbox
     /\ Len(exhausted') > Len(exhausted)
          => \A o \in Observers :
               sockets[o].connected
                 => Event("quota:exhausted", <<0, 0>>, 0) \in sockets'[o].inbox]_vars

\* C28: stats heartbeat: the step in which an observer connects and every
\* firing of its interval give it one queue:stats, and while it is
\* disconnected it gets none.
C28_StatsHeartbeat ==
  [][\A o \in Observers :
       /\ (sockets'[o].connected /\ ~sockets[o].connected)
            => sockets'[o].stats = sockets[o].stats + 1
       /\ sockets'[o].ticks > sockets[o].ticks
            => sockets'[o].stats = sockets[o].stats + 1
       /\ (~sockets'[o].connected /\ ~sockets[o].connected)
            => sockets'[o].stats = sockets[o].stats]_vars

\* C29: per-line output events: in a step in which the external process of
\* a job writes to standard output (standard error), every observer in the
\* job's room receives a job:stdout (job:stderr) event of that job.
C29_PerLineEvents ==
  [][\A j \in JobIds :
       /\ jobs'[j].output > jobs[j].output
            => \A o \in Observers :
                 (sockets[o].connected /\ DataOf(j) \in sockets[o].rooms)
                   => \E e \in sockets'[o].inbox \ sockets[o].inbox :
                        e.kind = "job:stdout" /\ e.job = <<DataOf(j), 0>>
       /\ jobs'[j].errorOutput > jobs[j].errorOutput
            => \A o \in Observers :
                 (sockets[o].connected /\ DataOf(j) \in sockets[o].rooms)
                   => \E e \in sockets'[o].inbox \ sockets[o].inbox :
                        e.kind = "job:stderr" /\ e.job = <<DataOf(j), 0>>]_vars

\* C30: malformed job payload: with the worker part_003, a job whose data
\* lacks a required field and that has left the active state has ended
\* with a failed result after its first attempt, without an external
\* process having run for it: it is not waiting for a retry.
C30_MalformedPayload ==
  \A j \in JobIds :
    (impl = "part_003" /\ jobData[DataOf(j)] # {} /\ jobs[j].log # <<>>)
      => /\ jobs[j].st \in {"completed", "failed"}
         /\ jobs[j].log \in {<<"missingField">>, <<"missingJobId">>}

\* ---------------------------------------------------------------- C31
\* C31: detectQuotaExhaustion(line) returns true exactly when the
\* lower-cased line contains at least one of the lower-cased indicators
\* 'quota', '429', 'free_tier_requests', 'RESOURCE_EXHAUSTED', 'exceeded
\* your current quota', and false for every other line; a call that
\* returns false changes no state.
C31_Indicators == {"quota", "429", "free_tier_requests",
                   "RESOURCE_EXHAUSTED", "exceeded your current quota"}
C31_ContainsIndicator(line) ==
  \E ind \in C31_Indicators : \E i \in 1..Len(line) :
    \A k \in 1..Len(ind) :
      /\ i + k - 1 <= Len(line)
      /\ ToLowerChar(SubSeq(line, i + k - 1, i + k - 1))
           = ToLowerChar(SubSeq(ind, k, k))
C31_DetectorPredicate ==
  /\ [](detector.called =>
          (detector.result <=> C31_ContainsIndicator(detector.line)))
  /\ [][(detector'.called /\ ~detector.called /\ ~detector'.result) =>
          UNCHANGED <<impl, secret, last, acceptedAt, now, jobs, waitq,
                      paused, timers, processedWebhooks, nextClear,
                      inflight, unanswered, nextJob, requests, resp, enq,
                      quotaUsed, exhausted, restored, resumes, io, sockets,
                      published, jobData, orchestrator>>]_vars
C31_Witness ==
  /\ detector.called
  /\ detector.line = "Error: Resource_Exhausted again"
  /\ detector.result
  /\ orchestrator = QuotaProtection(0)

\* ---------------------------------------------------------------- C32
\* C32: a request that is rejected or ignored (bad signature, unsupported
\* event category, ignored action, malformed payload, duplicate) is
\* answered in the step that receives it, enqueues no job and leaves the
\* dedup set exactly as it was.
C32_Rejections == {"500", "401", "Event ignored", "Comment action ignored",
                   "400", "Duplicate webhook ignored"}
C32_RejectionHasNoEffect ==
  [][(requests' = requests + 1 /\ inflight' = inflight) =>
       /\ last' \in C32_Rejections
       /\ processedWebhooks' = processedWebhooks
       /\ jobs' = jobs /\ waitq' = waitq /\ nextJob' = nextJob
       /\ enq' = enq /\ unanswered' = unanswered]_vars
C32_Witness ==
  /\ last = "400"
  /\ requests = 2
  /\ Cardinality(processedWebhooks) = 1
  /\ \E t \in Triggers : enq[t] = 1

\* ---------------------------------------------------------------- C33
\* C33: after any sequence of completions and failures the queue retains
\* at most 50 completed and at most 100 failed jobs; when a bound would be
\* exceeded, the oldest retained entry of that kind is the one evicted.
C33_Kept(st) == {j \in DOMAIN jobs : jobs[j].st = st}
C33_OldestEvicted(old, new, st, count) ==
  (Len(old) = count /\ new # old) =>
    /\ jobs'[Head(old)].st = "none"
    /\ \A k \in 1..(count - 1) :
         new[k] = old[k + 1] /\ jobs'[old[k + 1]].st = st
C33_BoundedHistory ==
  /\ [](/\ Cardinality(C33_Kept("completed")) <= 50
        /\ Cardinality(C33_Kept("failed")) <= 100
        /\ Len(history.completed) <= 50
        /\ Len(history.failed) <= 100)
  /\ [][C33_OldestEvicted(history.completed, history'.completed,
                          "completed", 50)
        /\ C33_OldestEvicted(history.failed, history'.failed,
                             "failed", 100)]_vars
C33_Witness ==
  /\ Len(history.completed) = 50 /\ history.completed[50] = <<151, 0>>
  /\ Len(history.failed) = 100 /\ history.failed[100] = <<152, 0>>
  /\ jobs[<<1, 0>>].st = "none" /\ jobs[<<51, 0>>].st = "none"
  /\ jobs[<<2, 0>>].st = "completed" /\ jobs[<<52, 0>>].st = "failed"

\* ---------------------------------------------------------------- C34
\* C34: a failed intake does not poison the dedup set: when the handler of
\* the only request that passed the dedup check for a trigger answers 500
\* because job preparation or enqueue failed, the trigger's key is not in
\* the dedup set afterwards, so a redelivery within the window is
\* processed rather than ignored as a duplicate.
C34_FailedIntakeLeavesNoKey ==
  [][\A t \in Triggers :
       (/\ inflight'[t] < inflight[t]
        /\ last' = "500"
        /\ Len(acceptedAt[t]) = 1)
         => DedupKey(t) \notin processedWebhooks']_vars

\* ---------------------------------------------------------------- C35
\* C35: after a single quota failure of a job, exactly one further
\* execution of the job's payload is scheduled, counting both the queue's
\* own retry of the original job and a copy re-enqueued under the id
\* '<id>-requeued' (the worker with the requeue branch).
C35_Scheduled(js, j) ==
  (IF js[j].st \in {"delayed", "waiting"} THEN 1 ELSE 0)
  + (IF js[Requeued(j)].st \in {"delayed", "waiting"} THEN 1 ELSE 0)
C35_OneFurtherExecution ==
  [][\A j \in JobIds :
       (/\ impl = "part_002"
        /\ quotaUsed' = quotaUsed + 1
        /\ jobs[j].st = "active" /\ jobs'[j].st # "active"
        /\ j[2] = 0 /\ jobs[j].attemptsMade = 0
        /\ jobs[Requeued(j)].st = "none")
         => C35_Scheduled(jobs', j) = 1]_vars

\* ---------------------------------------------------------------- C36
\* C36: after closeSocketIO has run, a queue lifecycle event delivered to
\* the handlers wired by initializeSocketIO is handled without error: no
\* handler uses the Socket.io server instance after it has been set to
\* null, in any interleaving of the shutdown with in-flight queue events.
C36_NoHandlerUsesNullIo == ~server.threw

\* ---------------------------------------------------------------- C37
\* C37: shutdown terminates: after SIGTERM or SIGINT the server process
\* eventually exits, even if closeQueue, closeWorker or closeSocketIO never
\* completes, because the 10-second forced exit is armed on every path
\* through gracefulShutdown.
C37_ShutdownTerminates ==
  (server.phase # "running") ~> (server.phase = "exited")

\* ---------------------------------------------------------------- C38
\* C38: the intake checks are applied in the order signature, event
\* category, action verb, payload shape, dedup, and the first check that
\* fails alone determines the response (401, 200 ignored, 200 ignored, 400,
\* 200 duplicate); a request that fails none is accepted.
C38_FirstFailure(q) ==
  IF secret /\ ~q.sig.isDigest THEN "401"
  ELSE IF q.event # "issue_comment" THEN "Event ignored"
  ELSE IF q.action # <<"created">> THEN "Comment action ignored"
  ELSE IF ~q.valid THEN "400"
  ELSE IF DedupKey(<<q.repo, q.id, q.action>>) \in processedWebhooks
       THEN "Duplicate webhook ignored"
  ELSE "accepted"
C38_FixedCheckOrder ==
  [][\A q \in Requests :
       WebhookReceive(q) =>
         IF C38_FirstFailure(q) = "accepted"
         THEN inflight' # inflight
         ELSE inflight' = inflight /\ last' = C38_FirstFailure(q)]_vars

\* ---------------------------------------------------------------- C39
\* C39: for every accepted trigger the job:started event is emitted only
\* after the job has been stored in the queue, and before any job:active
\* or terminal event of that job, under every interleaving of the intake
\* handler with the workers: in the step that emits job:started (the
\* handler returns from queueWebhookJob and answers "queued") the job is
\* stored and has not left the waiting state.
C39_StartedBeforeActive ==
  [][\A p \in unanswered :
       (p \notin unanswered' /\ last' = "queued" /\ io["server"])
         => jobs[p[1]].st = "waiting"]_vars

====
